---- MODULE Spec2Model ----
(***************************************************************************)
(* A model of the oh-my-live2d widget: the lifecycle orchestrator          *)
(* (modules/oml2d.ts, class OhMyLive2D) and the notification surface       *)
(* (modules/tips.ts, class Tips).                                          *)
(*                                                                         *)
(* Every public call, timer callback and promise continuation of the two   *)
(* classes is one action.  Time is discrete: a timer is its remaining      *)
(* delay, Tick lets one unit (1000 ms) pass and is disabled while a timer  *)
(* is due, so a due timer always fires before time advances.               *)
(***************************************************************************)
EXTENDS Integers, Sequences, FiniteSets, TLC

\* ------------------------------------------------------------------ bounds
MaxRuns == 2            \* transition workflows started in one behaviour
MaxDuration == 2        \* largest duration passed to tipsMessage
MaxPriority == 3        \* largest priority passed to tipsMessage
MaxClothesArg == 1      \* largest clothes index passed to a switch call
MaxIndexArg == 3        \* largest model index passed to loadModelByIndex
MaxScenarioRuns == 3    \* transition workflows followed for the scenario catalog

\* --------------------------------------------------------------- constants
\* tips.ts:13  closeTimer = 0: the field holds no timer handle
NoTimer == -1
\* tips.ts:14  transitionTime = 1000 (one time unit of the model)
TransitionTime == 1

\* The merged options the widget runs with (defaultOptions merged with the
\* user's): times in units of 1000 ms.  idleTips.priority and
\* welcomeTips.priority are the defaults; the durations are a configuration
\* with the defaults' order (duration < interval) at the model's scale.
Options ==
  [ idleDuration |-> 1, idleInterval |-> 2, idlePriority |-> 2,
    welcomeDuration |-> 2, welcomePriority |-> 3 ]

IdleMsg == "idle"
WelcomeMsg == "welcome"
Messages == {"m1"}
Names == {"A", "B", "Z"}

\* A catalog entry: its name and its path, a string (isArray = FALSE) or an
\* array of len paths.
Entry(n, arr, len) == [name |-> n, isArray |-> arr, len |-> len]

Catalogs ==
  { << >>,
    << Entry("A", FALSE, 1) >>,
    << Entry("A", TRUE, 2), Entry("B", FALSE, 1), Entry("B", TRUE, 2) >> }

\* The catalog of the two-model scenarios: two models of one variant each.
ScenarioCatalog == << Entry("A", FALSE, 1), Entry("B", FALSE, 1) >>

VARIABLES
  models,         \* options.models, the catalog (fixed at construction)
  mobileDisplay,  \* options.mobileDisplay
  initialStatus,  \* options.initialStatus
  viewport,       \* getWindowSizeType()
  sel,            \* the selection: orchestrator fields, mirrors, store
  statusBar,      \* the status overlay: last state shown, click binding
  runs,           \* the transition workflows started so far
  slideIns,       \* stage enter transitions in flight
  tips,           \* the notification surface and its idle player
  ev,             \* the call the last step was, and whether it was accepted (history)
  threw,          \* a switch method's promise has rejected (history)
  quiet,          \* time left of the longest d + transitionTime window (history)
  exhausted,      \* an idle tick has resolved an empty message (history)
  cleared         \* no show, notify or idle start was issued since the last clear() (history)

vars == << models, mobileDisplay, initialStatus, viewport, sel, statusBar,
           runs, slideIns, tips, ev, threw, quiet, exhausted, cleared >>

config == << models, mobileDisplay, initialStatus >>

Max(a, b) == IF a >= b THEN a ELSE b

\* ------------------------------------------------------------- the catalog
ModelCount == Len(models)

\* The number of clothes variants of the model at index i.
Variants(i) == IF models[i].isArray THEN models[i].len ELSE 1

\* Array.prototype.findIndex: the first index whose entry satisfies the
\* test, -1 when none does (0-based, as in the source).
FindIndex(name) ==
  IF \E k \in 1..ModelCount : models[k].name = name
    THEN (CHOOSE k \in 1..ModelCount :
            /\ models[k].name = name
            /\ \A j \in 1..(k - 1) : models[j].name # name) - 1
    ELSE -1

\* getRandomIndex(length, current): an index other than the current one when
\* there are two or more, else the only index.
RandomIndexes(length, current) ==
  IF length >= 2 THEN (0..(length - 1)) \ {current} ELSE {0}

\* An optional numeric argument is {} (undefined) or {n}; `arg || 0`.
OrZero(arg) ==
  IF arg = {} THEN 0
  ELSE LET n == CHOOSE x \in arg : TRUE IN IF n = 0 THEN 0 ELSE n

OptArgs == {{}} \cup {{n} : n \in 0..MaxClothesArg}

\* ----------------------------------------------------------- the selection
\* Mutant of the modelIndex setter: the store is not updated.
SetModelIndexUnsaved(s, index) ==
  [s EXCEPT !.currentModelIndex = index,
            !.stageModelIndex = index,
            !.modelsModelIndex = index]

\* Mutant of the modelIndex setter: the model manager's mirror is not
\* updated.
SetModelIndexUnmirrored(s, index) ==
  [s EXCEPT !.currentModelIndex = index,
            !.stageModelIndex = index,
            !.storeModelIndex = index]

\* set modelIndex(index)
SetModelIndex(s, index) ==
  [s EXCEPT !.currentModelIndex = index,
            !.stageModelIndex = index,
            !.modelsModelIndex = index,
            !.storeModelIndex = index]

\* set modelClothesIndex(index)
SetModelClothesIndex(s, index) ==
  [s EXCEPT !.currentModelClothesIndex = index,
            !.modelsModelClothesIndex = index,
            !.storeModelClothesIndex = index]

\* Mutant of mobileHidden: the mobileDisplay option is not consulted.
MobileHiddenAnyPolicy == viewport = "mobile"

\* get mobileHidden()
MobileHidden == ~mobileDisplay /\ viewport = "mobile"

\* ------------------------------------------------------------ Tips (tips.ts)
\* idlePlayer.stop(): the interval timer is cleared; a handler in flight is
\* not cancelled.
IdleStop(t) == [t EXCEPT !.running = FALSE, !.idleTimer = NoTimer]

\* idlePlayer.start(): schedules the next tick after the interval, unless
\* the player runs already; a handler still in flight schedules it when it
\* ends.
IdleStart(t) ==
  IF t.running THEN t
  ELSE [t EXCEPT !.running = TRUE,
                 !.idleTimer = IF t.idlePc = "none"
                                 THEN Options.idleInterval ELSE NoTimer]

\* Mutant of showMessage: the priority test is missing.
ShowMessageUnguarded(t, message, duration, priority) ==
  [t EXCEPT !.priority = priority,
            !.hideTimers = (IF t.closeTimer # NoTimer
                              THEN @ \ {t.closeTimer} ELSE @)
                           \cup {duration},
            !.closeTimer = duration,
            !.content = message,
            !.visible = TRUE]

\* Mutant of showMessage: the pending auto-hide timer is not cancelled.
ShowMessageStacking(t, message, duration, priority) ==
  IF priority < t.priority THEN t
  ELSE [t EXCEPT !.priority = priority,
                 !.hideTimers = @ \cup {duration},
                 !.closeTimer = duration,
                 !.content = message,
                 !.visible = TRUE]

\* showMessage(message, duration, priority)
ShowMessage(t, message, duration, priority) ==
  IF priority < t.priority THEN t
  ELSE [t EXCEPT !.priority = priority,
                 !.hideTimers = (IF t.closeTimer # NoTimer
                                   THEN @ \ {t.closeTimer} ELSE @)
                                \cup {duration},
                 !.closeTimer = duration,
                 !.content = message,
                 !.visible = TRUE]

\* Mutant of clear: the idle player is not stopped.
ClearLeavingIdle(t) ==
  [t EXCEPT !.visible = FALSE,
            !.hideTimers = @ \ {t.closeTimer},
            !.closeTimer = NoTimer,
            !.priority = 0]

\* Mutant of clear: the priority is not reset.
ClearKeepingPriority(t) ==
  [IdleStop(t) EXCEPT !.visible = FALSE,
                      !.hideTimers = @ \ {t.closeTimer},
                      !.closeTimer = NoTimer]

\* clear().  clearTimeout leaves the stale handle in closeTimer; clearing a
\* stale handle does nothing, so the model drops the handle.
Clear(t) ==
  [IdleStop(t) EXCEPT !.visible = FALSE,
                      !.hideTimers = @ \ {t.closeTimer},
                      !.closeTimer = NoTimer,
                      !.priority = 0]

\* notification(message, duration, priority)
Notification(t, message, duration, priority) ==
  [ShowMessage(IdleStop(t), message, duration, priority)
     EXCEPT !.resumeTimers = @ \cup {duration + TransitionTime}]

\* welcome()
Welcome(t) ==
  Notification(t, WelcomeMsg, Options.welcomeDuration, Options.welcomePriority)

\* The d + transitionTime window an accepted notification opens.
Window(t, duration, priority) ==
  IF priority >= t.priority THEN Max(quiet, duration + TransitionTime) ELSE quiet

\* ------------------------------------------------------------------ history
Ev(op, ok) == [op |-> op, ok |-> ok]
Tau == Ev("tau", TRUE)

\* Whether mobile display is not allowed while the viewport is classified
\* mobile, as a workflow records it when its exit transition completes.
HiddenNow == (~mobileDisplay) /\ viewport = "mobile"

\* Promise reactions (the then block of loadModel and the caller's
\* continuation) run before any timer, event or call.
NoMicrotask == \A r \in 1..Len(runs) : runs[r].pc # "then"

\* --------------------------------------------------------------------- Init
InitTips ==
  [ content |-> "", priority |-> 0, visible |-> FALSE,
    closeTimer |-> NoTimer, hideTimers |-> {}, resumeTimers |-> {},
    running |-> FALSE, idleTimer |-> NoTimer, idlePc |-> "none", sleep |-> 0 ]

NewRun(kind) ==
  [ kind |-> kind, pc |-> "slideOut", hiddenAtExit |-> FALSE,
    rested |-> FALSE, loadRequested |-> FALSE, loadFailed |-> FALSE,
    mounted |-> FALSE, called |-> FALSE, entered |-> FALSE,
    resumed |-> FALSE, log |-> << "clear", "slideOut" >> ]

\* The fields before the constructor's two setter calls.
NoSelection ==
  [ currentModelIndex |-> 0, stageModelIndex |-> 0, modelsModelIndex |-> 0,
    storeModelIndex |-> 0, currentModelClothesIndex |-> 0,
    modelsModelClothesIndex |-> 0, storeModelClothesIndex |-> 0 ]

\* store.getModelIndex(), store.getModelClothesIndex(): what an earlier
\* session persisted for this catalog, (0, 0) when there is none.
StoredModelIndexes(catalog) ==
  IF Len(catalog) = 0 THEN {0} ELSE 0..(Len(catalog) - 1)

StoredModelClothesIndexes(catalog, m) ==
  IF Len(catalog) = 0 THEN {0}
  ELSE 0..((IF catalog[m + 1].isArray THEN catalog[m + 1].len ELSE 1) - 1)

\* The constructor: the selection is read from the store and written through
\* the setters, then initialize() starts the first workflow, whose
\* synchronous part is tips.clear() and the start of stage.slideOut().
Init ==
  /\ models \in Catalogs
  /\ mobileDisplay \in BOOLEAN
  /\ initialStatus \in {"sleep", "active"}
  /\ viewport \in {"mobile", "desktop"}
  /\ \E m \in StoredModelIndexes(models) :
       \E c \in StoredModelClothesIndexes(models, m) :
         sel = SetModelClothesIndex(SetModelIndex(NoSelection, m), c)
  /\ statusBar = [state |-> "created", click |-> "none"]
  /\ runs = << NewRun("init") >>
  /\ slideIns = 0
  /\ tips = Clear(InitTips)
  /\ ev = Tau
  /\ threw = FALSE
  /\ quiet = 0
  /\ exhausted = FALSE
  /\ cleared = TRUE

\* ------------------------------------------------- the transition workflow
\* The number of workflows a behaviour of this catalog is followed for.
RunLimit == IF models = ScenarioCatalog THEN MaxScenarioRuns ELSE MaxRuns

\* Mutant of loadModel's start: the notification is not cleared.
StartLoadModelUncleared(kind) ==
  /\ Len(runs) < RunLimit
  /\ runs' = Append(runs, NewRun(kind))
  /\ UNCHANGED << tips, cleared >>

\* loadModel(callback) up to its first await: tips.clear(), then
\* stage.slideOut() is started.
StartLoadModel(kind) ==
  /\ Len(runs) < RunLimit
  /\ runs' = Append(runs, NewRun(kind))
  /\ tips' = Clear(tips)
  /\ cleared' = TRUE

\* The callers that run `void this.tips.idlePlayer?.start()` once
\* `await this.loadModel(...)` returns.
Resumes(kind) == kind \in {"reload", "random", "next", "byIndex", "byName"}

\* What the caller does once `await this.loadModel(...)` returns.
Continuation(kind, t) == IF Resumes(kind) THEN IdleStart(t) ELSE t

\* The callback handed to loadModel: initialize() honours initialStatus,
\* every other caller starts stage.slideIn().
SleepCallback(kind) == kind = "init" /\ initialStatus = "sleep"

\* `await this.stage.slideOut()` returns: the empty-catalog and the
\* mobile-hidden checks, then the loading status and models.create().
SlideOutDone(r) ==
  /\ NoMicrotask
  /\ runs[r].pc = "slideOut"
  /\ IF ModelCount = 0
       THEN /\ runs' = [runs EXCEPT ![r].pc = "done",
                                    ![r].hiddenAtExit = HiddenNow,
                                    ![r].resumed = Resumes(runs[r].kind),
                                    ![r].log = @ \o << "slideOutDone", "return" >>]
            /\ tips' = Continuation(runs[r].kind, tips)
            /\ cleared' = (cleared /\ ~Resumes(runs[r].kind))
            /\ UNCHANGED statusBar
       ELSE IF MobileHidden
         THEN /\ runs' = [runs EXCEPT ![r].pc = "done",
                                      ![r].hiddenAtExit = HiddenNow,
                                      ![r].rested = TRUE,
                                      ![r].resumed = Resumes(runs[r].kind),
                                      ![r].log = @ \o << "slideOutDone", "rest",
                                                         "return" >>]
              /\ statusBar' = [statusBar EXCEPT !.state = "rest"]
              /\ tips' = Continuation(runs[r].kind, tips)
              /\ cleared' = (cleared /\ ~Resumes(runs[r].kind))
         ELSE /\ runs' = [runs EXCEPT ![r].pc = "loading",
                                      ![r].hiddenAtExit = HiddenNow,
                                      ![r].loadRequested = TRUE,
                                      ![r].log = @ \o << "slideOutDone", "showLoading",
                                                         "create" >>]
              /\ statusBar' = [statusBar EXCEPT !.state = "loading"]
              /\ UNCHANGED << tips, cleared >>
  /\ ev' = Tau
  /\ UNCHANGED << config, threw, viewport, sel, slideIns, quiet, exhausted >>

\* models.create() resolves.
LoadResolve(r) ==
  /\ NoMicrotask
  /\ runs[r].pc = "loading"
  /\ runs' = [runs EXCEPT ![r].pc = "then", ![r].log = Append(@, "created")]
  /\ ev' = Tau
  /\ UNCHANGED << config, threw, viewport, sel, statusBar, slideIns, tips, quiet,
                  exhausted, cleared >>

\* models.create() rejects: the catch handler shows the load error with the
\* retry action, and the promise it returns is fulfilled.
LoadReject(r) ==
  /\ NoMicrotask
  /\ runs[r].pc = "loading"
  /\ runs' = [runs EXCEPT ![r].pc = "then", ![r].loadFailed = TRUE,
                          ![r].log = Append(@, "loadingError")]
  /\ statusBar' = [state |-> "loadError", click |-> "retry"]
  /\ ev' = Tau
  /\ UNCHANGED << config, threw, viewport, sel, slideIns, tips, quiet, exhausted,
                  cleared >>

\* Mutant of the then block: the callback runs before hideLoading().
ThenStepsCallbackFirst ==
  << "mount", "menusReload", "tipsReload", "settingModel", "reloadStyle",
     "resize", "callback", "hideLoading" >>

\* The statements of the then block, in the order of the source.
ThenSteps ==
  << "mount", "menusReload", "tipsReload", "settingModel", "reloadStyle",
     "resize", "hideLoading", "callback" >>

\* The then block chained after the catch: mount, anchors, settings,
\* resizes, hideLoading(), callback(); then the caller's continuation.
ThenBlock(r) ==
  /\ runs[r].pc = "then"
  /\ runs' = [runs EXCEPT ![r].pc = "done", ![r].mounted = TRUE,
                          ![r].called = TRUE,
                          ![r].entered = ~SleepCallback(runs[r].kind),
                          ![r].resumed = Resumes(runs[r].kind),
                          ![r].log = @ \o ThenSteps]
  /\ IF SleepCallback(runs[r].kind)
       THEN /\ tips' = Continuation(runs[r].kind, Clear(tips))
            /\ cleared' = ~Resumes(runs[r].kind)
            /\ statusBar' = [state |-> "restOpen", click |-> "wake"]
            /\ UNCHANGED slideIns
       ELSE /\ tips' = Continuation(runs[r].kind, tips)
            /\ cleared' = (cleared /\ ~Resumes(runs[r].kind))
            /\ statusBar' = [statusBar EXCEPT !.state = "loaded"]
            /\ slideIns' = slideIns + 1
  /\ ev' = Tau
  /\ UNCHANGED << config, threw, viewport, sel, quiet, exhausted >>

\* stage.slideIn() completes: the stageSlideIn listener runs tips.welcome().
SlideInDone ==
  /\ NoMicrotask
  /\ slideIns > 0
  /\ slideIns' = slideIns - 1
  /\ tips' = Welcome(tips)
  /\ quiet' = Window(tips, Options.welcomeDuration, Options.welcomePriority)
  /\ cleared' = FALSE
  /\ ev' = Tau
  /\ UNCHANGED << config, threw, viewport, sel, statusBar, runs, exhausted >>

\* ------------------------------------------------------ the switch methods
\* reloadModel()
ReloadModel ==
  /\ NoMicrotask
  /\ StartLoadModel("reload")
  /\ ev' = Ev("reloadModel", TRUE)
  /\ UNCHANGED << config, threw, viewport, sel, statusBar, slideIns, quiet, exhausted >>

\* loadRandomModel()
LoadRandomModel ==
  /\ NoMicrotask
  /\ \E i \in RandomIndexes(ModelCount, sel.currentModelIndex) :
       sel' = SetModelClothesIndex(SetModelIndex(sel, i), 0)
  /\ statusBar' = [statusBar EXCEPT !.state = "switching"]
  /\ StartLoadModel("random")
  /\ ev' = Ev("loadRandomModel", TRUE)
  /\ UNCHANGED << config, threw, viewport, slideIns, quiet, exhausted >>

\* Mutant of loadNextModel's selection: the index is not wrapped to 0.
NextModelUnwrapped(s) ==
  SetModelClothesIndex(SetModelIndex(s, s.currentModelIndex + 1), 0)

\* The selection loadNextModel() leaves: ++this.modelIndex goes through the
\* setter, and so does the wrap to 0.
NextModel(s) ==
  LET s1 == SetModelIndex(s, s.currentModelIndex + 1)
      s2 == IF s1.currentModelIndex >= ModelCount THEN SetModelIndex(s1, 0) ELSE s1
  IN SetModelClothesIndex(s2, 0)

\* loadNextModel()
LoadNextModel ==
  /\ NoMicrotask
  /\ sel' = NextModel(sel)
  /\ statusBar' = [statusBar EXCEPT !.state = "switching"]
  /\ StartLoadModel("next")
  /\ ev' = Ev("loadNextModel", TRUE)
  /\ UNCHANGED << config, threw, viewport, slideIns, quiet, exhausted >>

\* Mutant of the bounds test: the upper bound is inclusive.
IndexAcceptedInclusive(modelIndex) == modelIndex >= 0 /\ modelIndex <= ModelCount

\* The bounds test of loadModelByIndex.
IndexAccepted(modelIndex) == modelIndex >= 0 /\ modelIndex < ModelCount

\* loadModelByIndex(modelIndex, modelClothesIndex?)
LoadModelByIndex(modelIndex, modelClothesIndex) ==
  /\ NoMicrotask
  /\ IF IndexAccepted(modelIndex)
       THEN /\ sel' = SetModelClothesIndex(SetModelIndex(sel, modelIndex),
                                           OrZero(modelClothesIndex))
            /\ statusBar' = [statusBar EXCEPT !.state = "switching"]
            /\ StartLoadModel("byIndex")
       ELSE UNCHANGED << sel, statusBar, runs, tips, cleared >>
  /\ ev' = Ev("loadModelByIndex", IndexAccepted(modelIndex))
  /\ UNCHANGED << config, threw, viewport, slideIns, quiet, exhausted >>

\* The test loadModelByName makes of the index findIndex returned.
NameAccepted(targetIndex) == targetIndex > 0

\* loadModelByName(modelName, modelClothesIndex?)
LoadModelByName(modelName, modelClothesIndex) ==
  /\ NoMicrotask
  /\ IF NameAccepted(FindIndex(modelName))
       THEN /\ sel' = SetModelClothesIndex(SetModelIndex(sel, FindIndex(modelName)),
                                           OrZero(modelClothesIndex))
            /\ statusBar' = [statusBar EXCEPT !.state = "switching"]
            /\ StartLoadModel("byName")
       ELSE UNCHANGED << sel, statusBar, runs, tips, cleared >>
  /\ ev' = Ev("loadModelByName", NameAccepted(FindIndex(modelName)))
  /\ UNCHANGED << config, threw, viewport, slideIns, quiet, exhausted >>

\* The selection loadNextModelClothes() leaves for an array path.
NextClothes(s) ==
  LET s1 == SetModelClothesIndex(s, s.currentModelClothesIndex + 1)
  IN IF s1.currentModelClothesIndex >= models[s.currentModelIndex + 1].len
       THEN SetModelClothesIndex(s1, 0) ELSE s1

\* loadNextModelClothes(): reading .path of a catalog entry that does not
\* exist throws a TypeError, which rejects the promise the method returns.
LoadNextModelClothes ==
  /\ NoMicrotask
  /\ IF ~(sel.currentModelIndex + 1 \in 1..ModelCount)
       THEN /\ threw' = TRUE
            /\ ev' = Ev("loadNextModelClothes", FALSE)
            /\ UNCHANGED << sel, runs, tips, cleared >>
       ELSE /\ UNCHANGED threw
            /\ ev' = Ev("loadNextModelClothes", models[sel.currentModelIndex + 1].isArray)
            /\ IF models[sel.currentModelIndex + 1].isArray
                 THEN /\ sel' = NextClothes(sel)
                      /\ StartLoadModel("clothes")
                 ELSE UNCHANGED << sel, runs, tips, cleared >>
  /\ UNCHANGED << config, viewport, statusBar, slideIns, quiet, exhausted >>

\* The window changes its size class: the onChangeWindowSize listener runs
\* reloadModel().
Resize ==
  /\ NoMicrotask
  /\ viewport' = IF viewport = "mobile" THEN "desktop" ELSE "mobile"
  /\ StartLoadModel("reload")
  /\ ev' = Ev("resize", TRUE)
  /\ UNCHANGED << config, threw, sel, statusBar, slideIns, quiet, exhausted >>

\* A click on the status bar: the retry action of loadingError re-invokes
\* reloadModel(); the click event of the sleep callback slides the stage in
\* and closes the bar.
ClickStatus ==
  /\ NoMicrotask
  /\ \/ /\ statusBar.click = "retry"
        /\ StartLoadModel("reload")
        /\ UNCHANGED << statusBar, slideIns >>
     \/ /\ statusBar.click = "wake"
        /\ slideIns' = slideIns + 1
        /\ statusBar' = [state |-> "closed", click |-> "none"]
        /\ UNCHANGED << runs, tips, cleared >>
  /\ ev' = Ev("click", TRUE)
  /\ UNCHANGED << config, threw, viewport, sel, quiet, exhausted >>

\* ------------------------------------------------- the notification surface
\* tipsMessage(message, duration, priority)
TipsMessage(message, duration, priority) ==
  /\ NoMicrotask
  /\ tips' = Notification(tips, message, duration, priority)
  /\ quiet' = Window(tips, duration, priority)
  /\ cleared' = FALSE
  /\ ev' = Ev("tipsMessage", priority >= tips.priority)
  /\ UNCHANGED << config, threw, viewport, sel, statusBar, runs, slideIns, exhausted >>

\* clearTips()
ClearTips ==
  /\ NoMicrotask
  /\ tips' = Clear(tips)
  /\ cleared' = TRUE
  /\ ev' = Ev("clearTips", TRUE)
  /\ UNCHANGED << config, threw, viewport, sel, statusBar, runs, slideIns, quiet,
                  exhausted >>

\* The auto-hide timeout of showMessage fires.
HideTimerFire ==
  /\ NoMicrotask
  /\ 0 \in tips.hideTimers
  /\ tips' = [tips EXCEPT !.hideTimers = @ \ {0},
                          !.closeTimer = IF @ = 0 THEN NoTimer ELSE @,
                          !.visible = FALSE,
                          !.priority = 0]
  /\ ev' = Tau
  /\ UNCHANGED << config, threw, viewport, sel, statusBar, runs, slideIns, quiet,
                  exhausted, cleared >>

\* The timeout of notification fires: idlePlayer.start().
ResumeTimerFire ==
  /\ NoMicrotask
  /\ 0 \in tips.resumeTimers
  /\ tips' = IdleStart([tips EXCEPT !.resumeTimers = @ \ {0}])
  /\ ev' = Tau
  /\ UNCHANGED << config, threw, viewport, sel, statusBar, runs, slideIns, quiet,
                  exhausted, cleared >>

\* The idle player's interval elapses: its handler starts and awaits the
\* message of its source.
IdleTick ==
  /\ NoMicrotask
  /\ tips.idleTimer = 0
  /\ tips' = [tips EXCEPT !.idleTimer = NoTimer, !.idlePc = "fetching"]
  /\ ev' = Tau
  /\ UNCHANGED << config, threw, viewport, sel, statusBar, runs, slideIns, quiet,
                  exhausted, cleared >>

\* The handler after the message resolved: a message is shown and the
\* handler sleeps for its duration; an empty one stops the player.
IdleHandle(t, message) ==
  IF message # ""
    THEN [ShowMessage(t, message, Options.idleDuration, Options.idlePriority)
            EXCEPT !.idlePc = "sleeping", !.sleep = Options.idleDuration]
    ELSE [IdleStop(t) EXCEPT !.idlePc = "none"]

IdleResolve(message) ==
  /\ NoMicrotask
  /\ tips.idlePc = "fetching"
  /\ tips' = IdleHandle(tips, message)
  /\ exhausted' = (exhausted \/ message = "")
  /\ ev' = Tau
  /\ UNCHANGED << config, threw, viewport, sel, statusBar, runs, slideIns, quiet,
                  cleared >>

\* sleep(duration) returns: the handler ends, and a running player
\* schedules its next tick.
IdleSleepDone ==
  /\ NoMicrotask
  /\ tips.idlePc = "sleeping"
  /\ tips.sleep = 0
  /\ tips' = [tips EXCEPT !.idlePc = "none",
                          !.idleTimer = IF tips.running
                                          THEN Options.idleInterval ELSE NoTimer]
  /\ ev' = Tau
  /\ UNCHANGED << config, threw, viewport, sel, statusBar, runs, slideIns, quiet,
                  exhausted, cleared >>

\* ---------------------------------------------------------------------- time
Dec(n) == IF n > 0 THEN n - 1 ELSE n

TimerPending ==
  \/ tips.hideTimers # {}
  \/ tips.resumeTimers # {}
  \/ tips.idleTimer # NoTimer
  \/ tips.idlePc = "sleeping"
  \/ quiet > 0

TimerDue ==
  \/ 0 \in tips.hideTimers
  \/ 0 \in tips.resumeTimers
  \/ tips.idleTimer = 0
  \/ (tips.idlePc = "sleeping" /\ tips.sleep = 0)

\* One unit of time passes.
Tick ==
  /\ NoMicrotask
  /\ TimerPending
  /\ ~TimerDue
  /\ tips' = [tips EXCEPT !.hideTimers = {n - 1 : n \in @},
                          !.closeTimer = Dec(@),
                          !.resumeTimers = {n - 1 : n \in @},
                          !.idleTimer = Dec(@),
                          !.sleep = Dec(@)]
  /\ quiet' = Dec(quiet)
  /\ ev' = Tau
  /\ UNCHANGED << config, threw, viewport, sel, statusBar, runs, slideIns, exhausted,
                  cleared >>

\* ---------------------------------------------------------------------- Next
\* The steps of a workflow in flight.
WorkflowStep ==
  \/ \E r \in 1..Len(runs) : SlideOutDone(r)
  \/ \E r \in 1..Len(runs) : LoadResolve(r)
  \/ \E r \in 1..Len(runs) : LoadReject(r)
  \/ \E r \in 1..Len(runs) : ThenBlock(r)
  \/ SlideInDone

\* The timers of the notification surface, and time.
TimerStep ==
  \/ HideTimerFire
  \/ ResumeTimerFire
  \/ IdleTick
  \/ \E m \in {"", IdleMsg} : IdleResolve(m)
  \/ IdleSleepDone
  \/ Tick

\* The orchestrator's public methods and the events wired to them.
SwitchCall ==
  \/ ReloadModel
  \/ LoadRandomModel
  \/ LoadNextModel
  \/ \E i \in (0 - 1)..MaxIndexArg : \E c \in OptArgs : LoadModelByIndex(i, c)
  \/ \E n \in Names : \E c \in OptArgs : LoadModelByName(n, c)
  \/ LoadNextModelClothes
  \/ Resize
  \/ ClickStatus

\* The notification methods a host page calls.
TipsCall ==
  \/ \E m \in Messages : \E d \in 1..MaxDuration : \E p \in 0..MaxPriority :
       TipsMessage(m, d, p)
  \/ ClearTips

\* The widget under switch calls, for every catalog and policy.  No step of
\* the notification surface reads or writes the selection, the workflows or
\* the status bar, so its timers are left to TipsSpec.
Next == WorkflowStep \/ SwitchCall

Spec == Init /\ [][Next]_vars

\* The notification surface under the host page's calls, with the widget's
\* first workflow and reloads of the one-model catalog running beside it.
TipsInit ==
  /\ Init
  /\ models = << Entry("A", FALSE, 1) >>
  /\ mobileDisplay
  /\ viewport = "desktop"
  /\ initialStatus = "active"

TipsNext ==
  \/ WorkflowStep
  \/ TimerStep
  \/ TipsCall
  \/ ReloadModel

TipsSpec == TipsInit /\ [][TipsNext]_vars

\* The two-model scenario catalog under overlapping switch calls: the first
\* workflow and two more, each started while the earlier ones are at any of
\* their suspension points.
ScenarioInit ==
  /\ models = ScenarioCatalog
  /\ mobileDisplay = TRUE
  /\ initialStatus = "active"
  /\ viewport = "desktop"
  /\ \E m \in StoredModelIndexes(models) :
       \E c \in StoredModelClothesIndexes(models, m) :
         sel = SetModelClothesIndex(SetModelIndex(NoSelection, m), c)
  /\ statusBar = [state |-> "created", click |-> "none"]
  /\ runs = << NewRun("init") >>
  /\ slideIns = 0
  /\ tips = Clear(InitTips)
  /\ ev = Tau
  /\ threw = FALSE
  /\ quiet = 0
  /\ exhausted = FALSE
  /\ cleared = TRUE

ScenarioNext ==
  \/ WorkflowStep
  \/ LoadNextModel
  \/ LoadRandomModel
  \/ \E i \in 0..MaxIndexArg : LoadModelByIndex(i, {})

ScenarioSpec == ScenarioInit /\ [][ScenarioNext]_vars

\* =================================================================== claims
LastRun == runs[Len(runs)]
Given(arg) == CHOOSE x \in arg : TRUE
NameMatches(n) == \E k \in 1..ModelCount : models[k].name = n
FirstMatch(n) ==
  (CHOOSE k \in 1..ModelCount :
     models[k].name = n /\ \A j \in 1..(k - 1) : models[j].name # n) - 1

\* C1: every switchByName(name) whose name equals the name of a catalog
\* entry, the entry at index 0 included, sets the orchestrator's and the
\* persisted model index to the first matching index and starts the
\* transition workflow.
C1_SwitchByNameSelectsFirstMatch ==
  [][ev'.op = "loadModelByName" =>
     \A n \in Names : \A c \in OptArgs :
       (LoadModelByName(n, c) /\ NameMatches(n))
         => /\ sel'.currentModelIndex = FirstMatch(n)
            /\ sel'.storeModelIndex = FirstMatch(n)
            /\ Len(runs') = Len(runs) + 1
            /\ runs'[Len(runs')].kind = "byName"
            /\ runs'[Len(runs')].pc = "slideOut"]_vars

\* C2: a workflow whose asset load failed ends at the load-error status: it
\* does not mount the model, does not run the success path and never invokes
\* its completion callback.
C2_FailedLoadEndsWorkflow ==
  \A r \in 1..Len(runs) :
    runs[r].loadFailed
      => ~runs[r].mounted /\ ~runs[r].called /\ ~runs[r].entered

\* C3 (as claimed): every workflow run that finds the widget mobile-hidden
\* when its exit transition completes shows the resting status, requests no
\* load and fires no enter transition.
C3_MobileHiddenAlwaysRests ==
  \A r \in 1..Len(runs) :
    (runs[r].pc # "slideOut" /\ runs[r].hiddenAtExit)
      => runs[r].rested /\ ~runs[r].loadRequested /\ ~runs[r].entered

\* C3 (amended): with a non-empty catalog, a workflow run that finds the
\* widget mobile-hidden when its exit transition completes shows the resting
\* status, requests no load and fires no enter transition, and a run that
\* finds it not mobile-hidden requests the load: the predicate is evaluated
\* by each run.
C3_MobileHiddenRests ==
  \A r \in 1..Len(runs) :
    (runs[r].pc # "slideOut" /\ ModelCount > 0)
      => IF runs[r].hiddenAtExit
           THEN runs[r].rested /\ ~runs[r].loadRequested /\ ~runs[r].entered
                /\ runs[r].pc = "done"
           ELSE runs[r].loadRequested /\ ~runs[r].rested

\* C3 witness: a first run rested, the viewport changed, and the second run
\* requested its load.
C3_Witness ==
  /\ Len(runs) = 2
  /\ runs[1].hiddenAtExit /\ runs[1].rested /\ runs[1].pc = "done"
  /\ ~runs[2].hiddenAtExit /\ runs[2].loadRequested
  /\ ~mobileDisplay

\* C4: with a non-empty catalog the selection is always in range:
\* 0 <= modelIndex < catalog.length and 0 <= clothesIndex < the number of
\* variants of the selected model.
C4_SelectionInRange ==
  ModelCount > 0
    => /\ sel.currentModelIndex >= 0
       /\ sel.currentModelIndex < ModelCount
       /\ sel.currentModelClothesIndex >= 0
       /\ sel.currentModelClothesIndex < Variants(sel.currentModelIndex + 1)

\* C5: no public switch method ever rejects the promise it returns.
C5_SwitchNeverRejects == ~threw

\* C6: while the d + transitionTime window of an accepted notification is
\* open, the displayed content is never an idle message.
C6_IdleSilentDuringNotification ==
  tips.content = IdleMsg => quiet = 0

\* C7: once an idle tick has resolved an empty message and stopped the idle
\* player, no later step restarts it.
C7_IdleStaysStopped ==
  [][(exhausted /\ ~tips.running) => ~tips'.running]_vars

\* C8: a tipsMessage call with a priority below the current one leaves the
\* displayed content, the current priority, the visibility and the pending
\* auto-hide timer as they were.
C8_LowPriorityNotifyKeepsMessage ==
  [][ev'.op = "tipsMessage" =>
     \A m \in Messages : \A d \in 1..MaxDuration : \A p \in 0..MaxPriority :
       (TipsMessage(m, d, p) /\ p < tips.priority)
         => /\ tips'.content = tips.content
            /\ tips'.priority = tips.priority
            /\ tips'.visible = tips.visible
            /\ tips'.closeTimer = tips.closeTimer
            /\ tips'.hideTimers = tips.hideTimers]_vars

\* C8 witness: a tipsMessage call was rejected while the welcome message is
\* displayed with its auto-hide timer pending.
C8_Witness ==
  /\ ev = Ev("tipsMessage", FALSE)
  /\ tips.content = WelcomeMsg
  /\ tips.visible
  /\ tips.priority = Options.welcomePriority
  /\ tips.closeTimer \in tips.hideTimers

\* C9: loadModelByIndex(i) with 0 <= i < catalog.length sets the
\* orchestrator's and the persisted model index to i and the clothes index
\* to 0, and loadModelByIndex(i, c) sets the clothes index to c.
C9_SwitchByIndexSetsSelection ==
  [][ev'.op = "loadModelByIndex" =>
     \A i \in 0..(ModelCount - 1) : \A c \in OptArgs :
       LoadModelByIndex(i, c)
         => /\ sel'.currentModelIndex = i
            /\ sel'.storeModelIndex = i
            /\ sel'.currentModelClothesIndex = (IF c = {} THEN 0 ELSE Given(c))
            /\ sel'.storeModelClothesIndex = (IF c = {} THEN 0 ELSE Given(c))]_vars

\* C9 witness: loadModelByIndex was accepted from a selection other than
\* (0, 0) and left model 2 with clothes 1, persisted.
C9_Witness ==
  /\ ev = Ev("loadModelByIndex", TRUE)
  /\ sel.currentModelIndex = 2 /\ sel.storeModelIndex = 2
  /\ sel.currentModelClothesIndex = 1 /\ sel.storeModelClothesIndex = 1
  /\ LastRun.kind = "byIndex"

\* C10: loadModelByIndex with an index below 0 or not below catalog.length,
\* and loadModelByName with a name no entry has, leave the selection, its
\* mirrors and the store unchanged and start no workflow: no notification
\* clear, no exit transition, no status change, no load.
C10_RejectedSwitchIsNoOp ==
  [][/\ ev'.op = "loadModelByIndex" =>
          \A i \in ((0 - 1)..MaxIndexArg) \ (0..(ModelCount - 1)) :
            \A c \in OptArgs :
              LoadModelByIndex(i, c)
                => UNCHANGED << sel, runs, tips, statusBar, slideIns >>
     /\ ev'.op = "loadModelByName" =>
          \A n \in {x \in Names : ~NameMatches(x)} : \A c \in OptArgs :
            LoadModelByName(n, c)
              => UNCHANGED << sel, runs, tips, statusBar, slideIns >>]_vars

\* C10 witness: a loadModelByIndex call was rejected while a workflow of a
\* non-empty catalog was loading and a model other than the first selected.
C10_Witness ==
  /\ ev = Ev("loadModelByIndex", FALSE)
  /\ ModelCount > 0
  /\ sel.currentModelIndex > 0
  /\ \E r \in 1..Len(runs) : runs[r].pc = "loading"

\* ------------------------------------------------------------------- C11
RECURSIVE NextModelTimes(_, _)
NextModelTimes(s, n) == IF n = 0 THEN s ELSE NextModelTimes(NextModel(s), n - 1)

\* C11: with a non-empty catalog, loadNextModel sets the orchestrator's and
\* the persisted model index to (current + 1) mod catalog.length and the
\* clothes index to 0, and catalog.length further calls lead back to the
\* index it left.
C11_SwitchToNextWraps ==
  [][(ev'.op = "loadNextModel" /\ ModelCount > 0) =>
       /\ sel'.currentModelIndex = (sel.currentModelIndex + 1) % ModelCount
       /\ sel'.storeModelIndex = (sel.currentModelIndex + 1) % ModelCount
       /\ sel'.currentModelClothesIndex = 0
       /\ sel'.storeModelClothesIndex = 0
       /\ NextModelTimes(sel', ModelCount).currentModelIndex
            = sel'.currentModelIndex]_vars

\* C11 witness: with the two-model catalog, two loadNextModel calls in a row
\* have led from index 0 through index 1 back to index 0.
C11_Witness ==
  /\ ev = Ev("loadNextModel", TRUE)
  /\ Len(runs) = 3
  /\ runs[2].kind = "next" /\ runs[3].kind = "next"
  /\ sel.currentModelIndex = 0 /\ sel.storeModelIndex = 0

\* ------------------------------------------------------------------- C12
\* C12: the retry action registered after a load failure starts a whole new
\* workflow: the notification is cleared and the exit transition started
\* with nothing else done, and a workflow whose exit transition completes
\* with a non-empty catalog and the widget not mobile-hidden shows the
\* loading status and requests the load at that step.
C12_RetryRerunsWorkflow ==
  [][/\ (ev'.op = "click" /\ statusBar.click = "retry") =>
          /\ \E r \in 1..Len(runs) : runs[r].loadFailed
          /\ runs' = Append(runs, NewRun("reload"))
          /\ ~runs'[Len(runs')].loadRequested
          /\ tips' = Clear(tips)
          /\ sel' = sel
     /\ \A r \in 1..Len(runs) :
          (/\ runs[r].pc = "slideOut"
           /\ runs'[r].pc # "slideOut"
           /\ ModelCount > 0
           /\ ~HiddenNow)
            => /\ runs'[r].pc = "loading"
               /\ runs'[r].loadRequested
               /\ statusBar'.state = "loading"]_vars

\* C12 witness: the first workflow's load failed, its welcome message was on
\* display, and the retry action has just started the second workflow.
C12_Witness ==
  /\ ev = Ev("click", TRUE)
  /\ statusBar.click = "retry"
  /\ Len(runs) = 2
  /\ runs[1].loadFailed /\ runs[1].pc = "done"
  /\ runs[2].kind = "reload" /\ runs[2].pc = "slideOut"
  /\ ~tips.visible /\ tips.priority = 0
  /\ tips.resumeTimers # {}

\* ------------------------------------------------------------------- C13
\* C13: every step that starts a workflow after the first one leaves the
\* status bar opened with the switching message.
C13_WorkflowOpensSwitching ==
  [][Len(runs') > Len(runs) => statusBar'.state = "switching"]_vars

\* ------------------------------------------------------------------- C14
\* C14: right after clear(), called by the host page or by a starting
\* workflow, from any notification state, the priority is 0, no auto-hide
\* timer is pending and the idle player is stopped with no tick scheduled.
C14_ClearResets ==
  [][ev'.op \in {"clearTips", "reloadModel"} =>
       /\ tips'.priority = 0
       /\ tips'.hideTimers = {}
       /\ tips'.closeTimer = NoTimer
       /\ ~tips'.running
       /\ tips'.idleTimer = NoTimer]_vars

\* C14 witness: clearTips() was called while the idle player's handler was
\* in flight and the window of a notification of duration 2 or more had at
\* least two units left, so its auto-hide timer had not yet fired.
C14_Witness ==
  /\ ev = Ev("clearTips", TRUE)
  /\ tips.content \in Messages
  /\ tips.idlePc # "none"
  /\ quiet >= 2
  /\ tips.resumeTimers # {}

\* ------------------------------------------------------------------- C15
\* C15: as long as no show, notify or idle start was issued after the last
\* clear(), the idle player stays stopped: no timer scheduled before the
\* clear restarts it.
C15_ClearCancelsTimers == cleared => ~tips.running

\* ------------------------------------------------------------------- C16
\* C16: only a workflow run that loaded and mounted its model is followed by
\* the caller's idlePlayer.start(): a run aborted on the empty catalog or on
\* mobile-hidden, or whose load failed, does not restart the idle player.
C16_IdleResumedOnSuccessOnly ==
  \A r \in 1..Len(runs) :
    runs[r].resumed => (runs[r].mounted /\ ~runs[r].loadFailed)

\* ------------------------------------------------------------------- C17
Synced(s) ==
  /\ s.modelsModelIndex = s.currentModelIndex
  /\ s.stageModelIndex = s.currentModelIndex
  /\ s.storeModelIndex = s.currentModelIndex
  /\ s.modelsModelClothesIndex = s.currentModelClothesIndex
  /\ s.storeModelClothesIndex = s.currentModelClothesIndex

\* C17: at every suspension point, overlapping workflows included, the
\* orchestrator's selection, the model manager's and the stage's mirrors and
\* the persisted selection are equal, and no step of a workflow in flight
\* writes the selection: it stays what the last switch call computed.
C17_SelectionSynced ==
  [][Synced(sel') /\ (ev'.op = "tau" => sel' = sel)]_vars

\* C17 witness: three workflows overlap, two of them started by switch calls
\* (loadNextModel, then loadRandomModel while the former was loading), and
\* the selection is the one the last call computed.
C17_Witness ==
  /\ Len(runs) = 3
  /\ runs[1].pc = "loading"
  /\ runs[2].kind = "next" /\ runs[2].pc = "loading"
  /\ runs[3].kind = "random" /\ runs[3].pc = "slideOut"
  /\ ev = Ev("loadRandomModel", TRUE)
  /\ sel.currentModelIndex = 1
  /\ Synced(sel)

\* ------------------------------------------------------------------- C18
\* The steps of a workflow in the order the workflow lists them.
ListedOrder ==
  << "clear", "slideOut", "slideOutDone", "showLoading", "create", "created",
     "mount", "menusReload", "tipsReload", "settingModel", "reloadStyle",
     "resize", "hideLoading", "callback" >>

IsPrefix(a, b) == Len(a) <= Len(b) /\ \A k \in 1..Len(a) : a[k] = b[k]

\* The position of a step in a log, 0 when it has not happened.
Pos(l, step) ==
  IF \E k \in 1..Len(l) : l[k] = step
    THEN CHOOSE k \in 1..Len(l) : l[k] = step ELSE 0

\* C18: the steps of one workflow run happen in the listed order: a run that
\* neither aborted nor failed has done a prefix of the list; in every run the
\* load is requested only after that run's exit transition completed, and
\* the callback runs only after that run's load completed and the loading
\* indicator was hidden.
C18_StepsInListedOrder ==
  \A r \in 1..Len(runs) :
    LET l == runs[r].log IN
      /\ (~runs[r].loadFailed /\ Pos(l, "return") = 0) => IsPrefix(l, ListedOrder)
      /\ Pos(l, "clear") = 1 /\ Pos(l, "slideOut") = 2
      /\ Pos(l, "create") > 0
           => (Pos(l, "slideOutDone") > 0 /\ Pos(l, "slideOutDone") < Pos(l, "create"))
      /\ Pos(l, "callback") > 0
           => /\ Pos(l, "create") > 0
              /\ Pos(l, "create") < Pos(l, "hideLoading")
              /\ Pos(l, "hideLoading") < Pos(l, "callback")
              /\ Pos(l, "callback") = Len(l)

\* C18 witness: a workflow started by a switch call has run all listed steps.
C18_Witness ==
  /\ Len(runs) = 2
  /\ runs[2].log = ListedOrder
  /\ runs[2].entered

\* ------------------------------------------------------------------- C19
\* C19: at most one auto-hide timer is pending, the one of the message
\* accepted last, and a displayed message is hidden, or the priority
\* lowered, only by that timer after the message's full duration or by
\* clear().
C19_OneHideTimer ==
  [][/\ Cardinality(tips'.hideTimers) <= 1
     /\ tips'.hideTimers \subseteq {tips'.closeTimer}
     /\ ((tips.visible /\ ~tips'.visible) \/ tips'.priority < tips.priority)
          => \/ (tips.closeTimer = 0 /\ tips.hideTimers = {0})
             \/ tips' = Clear(tips)]_vars

\* C19 witness: a notification of duration 1 has just replaced a message of
\* duration 2 shown at the same instant, whose timer it cancelled: the only
\* pending auto-hide timer is its own.
C19_Witness ==
  /\ ev = Ev("tipsMessage", TRUE)
  /\ quiet = 3
  /\ tips.content \in Messages
  /\ tips.visible
  /\ tips.closeTimer = 1
  /\ tips.hideTimers = {1}

\* ------------------------------------------------------------------- C20
\* C20: whenever the priority is above 0, the auto-hide timer of the
\* displayed message is pending, so the priority is reset to 0 when it
\* fires.
C20_PriorityHasTimer ==
  tips.priority > 0
    => /\ tips.closeTimer # NoTimer
       /\ tips.closeTimer \in tips.hideTimers
       /\ tips.visible

\* C20 witness: an idle message is displayed at the idle priority with its
\* auto-hide timer due, while a notification's resume timer is pending.
C20_Witness ==
  /\ tips.priority = Options.idlePriority
  /\ tips.content = IdleMsg
  /\ tips.visible
  /\ tips.closeTimer = 0
  /\ 0 \in tips.hideTimers
  /\ tips.resumeTimers # {}

====
